---- MODULE Spec2Model ----
(***************************************************************************)
(* Weather-Data-System: the ingestion handler (src/aws/aws_lambda.py) and  *)
(* the reporting layer (src/db_utils.py, src/main.py).                     *)
(*                                                                         *)
(* Four specifications share the variables:                                *)
(*   Spec        one lambda_handler invocation and its worker pool         *)
(*   SpecFair    the same, with the scheduling of its threads              *)
(*   SpecDates   parse_date_filter over every value of the clock           *)
(*   SpecReport  the aggregate queries over a seeded table                 *)
(***************************************************************************)
EXTENDS Integers, Sequences, FiniteSets, Bags, TLC

VARIABLES
    table,      \* the weatherdata table: a bag of rows (the surrogate id is not modelled)
    table0,     \* the table as it was when the handler was invoked
    hpc,        \* lambda_handler's position
    result,     \* what lambda_handler returned
    queue,      \* the executor's work queue (cities submitted, not yet started)
    task,       \* task[c]: position of fetch_and_store_weather(c)
    resp,       \* resp[c]: the HTTP exchange of c's GET
    data,       \* data[c]: what get_weather(c) produced
    gets,       \* gets[c]: HTTP GETs issued for c
    submits,    \* submits[c]: executor.submit calls for c
    addRet,     \* addRet[c]: how add_record ended for c
    log,        \* logging.error lines, as <<who, message>>
    now,        \* datetime.now() of the reporting process
    call,       \* the reporting call made last
    ret         \* its outcome

vars == <<table, table0, hpc, result, queue, task, resp, data, gets, submits,
          addRet, log, now, call, ret>>

lambdaVars == <<table0, hpc, result, queue, task, resp, data, gets, submits, addRet, log>>
reportVars == <<now, call, ret>>

----------------------------------------------------------------------------
(* Bounds of the model *)

\* the clock is discretised: this many instants in every hour
TicksPerHour == 2
\* datetime.now() ranges over the days 0 .. MaxDay (day 0 is a Monday)
MaxDay == 14
\* rows the reporting specification seeds into the table
MaxRows == 3
\* cities of the handler's list that are modelled (the source lists 19)
NumCities == 3
\* worker threads of the pool
MaxWorkers == 2

(* Calendar constants of datetime / timedelta *)
HoursPerDay == 24
DaysPerWeek == 7

TicksPerDay == HoursPerDay * TicksPerHour

----------------------------------------------------------------------------
(* datetime and timedelta.  A datetime is [day, hour, tick]; day 0 is a    *)
(* Monday, so weekday() is day % 7 with Monday = 0 as in Python.           *)

DateTime(d, h, t) == [day |-> d, hour |-> h, tick |-> t]

\* position of a datetime on the time line (what <, >= compare)
ToTicks(dt) == (dt.day * HoursPerDay + dt.hour) * TicksPerHour + dt.tick

\* the datetime at a position of the time line (timedelta arithmetic normalises)
FromTicks(n) ==
    DateTime(n \div TicksPerDay,
             (n % TicksPerDay) \div TicksPerHour,
             n % TicksPerHour)

\* dt + timedelta(days=days, hours=hours)
AddDelta(dt, days, hours) ==
    FromTicks(ToTicks(dt) + days * TicksPerDay + hours * TicksPerHour)

\* dt.replace(hour=0, minute=0, second=0, microsecond=0)
ReplaceMidnight(dt) == [dt EXCEPT !.hour = 0, !.tick = 0]

\* dt.weekday()
Weekday(dt) == dt.day % DaysPerWeek

\* date_range(start_date, days, hours)
date_range(start_date, days, hours) ==
    [start |-> start_date, end |-> AddDelta(start_date, days, hours)]

\* what the user types at the prompt of 'selected_hour'
Inputs ==
    [text : {"date hour"}, day : {0, MaxDay \div 2}, hour : {0, 9, HoursPerDay - 1, HoursPerDay}]
        \cup {[text |-> "garbage", day |-> 0, hour |-> 0]}

\* datetime.strptime(timestamp_str, '%Y-%m-%d %H')
Strptime(inp) ==
    IF inp.text = "date hour" /\ inp.hour \in 0 .. (HoursPerDay - 1)
    THEN [raised |-> "none", value |-> DateTime(inp.day, inp.hour, 0)]
    ELSE [raised |-> "ValueError", value |-> DateTime(0, 0, 0)]

NamedFilters == {"selected_hour", "today", "yesterday", "current_week", "last_seven_days"}
Filters == NamedFilters \cup {"tomorrow", "Today", ""}

NoWindow == [start |-> DateTime(0, 0, 0), end |-> DateTime(0, 0, 0)]
Window(w) == [raised |-> "none", start |-> w.start, end |-> w.end]
RaiseValueError == [raised |-> "ValueError", start |-> NoWindow.start, end |-> NoWindow.end]

\* "current_week" with the week starting one day late
current_week_mutant(n) ==
    date_range(ReplaceMidnight(AddDelta(n, 0 - (Weekday(n) + 1), 0)), DaysPerWeek, 0)

\* the "current_week" branch
current_week(n) ==
    date_range(ReplaceMidnight(AddDelta(n, 0 - Weekday(n), 0)), DaysPerWeek, 0)

\* parse_date_filter with an unrecognised filter treated as "today"
parse_date_filter_mutant(date_filter, n, inp) ==
    IF date_filter = "selected_hour" THEN
        LET p == Strptime(inp) IN
        IF p.raised # "none" THEN RaiseValueError
        ELSE Window(date_range(p.value, 0, 1))
    ELSE IF date_filter = "yesterday" THEN
        Window(date_range(ReplaceMidnight(AddDelta(n, 0 - 1, 0)), 1, 0))
    ELSE IF date_filter = "current_week" THEN
        Window(current_week(n))
    ELSE IF date_filter = "last_seven_days" THEN
        LET end_date == ReplaceMidnight(AddDelta(n, 1, 0)) IN
        Window(date_range(AddDelta(end_date, 0 - DaysPerWeek, 0), DaysPerWeek, 0))
    ELSE Window(date_range(ReplaceMidnight(n), 1, 0))

\* parse_date_filter(date_filter), with the clock and the typed input as arguments
parse_date_filter(date_filter, n, inp) ==
    IF date_filter = "selected_hour" THEN
        LET p == Strptime(inp) IN
        IF p.raised # "none" THEN RaiseValueError
        ELSE Window(date_range(p.value, 0, 1))
    ELSE IF date_filter = "today" THEN
        Window(date_range(ReplaceMidnight(n), 1, 0))
    ELSE IF date_filter = "yesterday" THEN
        Window(date_range(ReplaceMidnight(AddDelta(n, 0 - 1, 0)), 1, 0))
    ELSE IF date_filter = "current_week" THEN
        Window(current_week(n))
    ELSE IF date_filter = "last_seven_days" THEN
        LET end_date == ReplaceMidnight(AddDelta(n, 1, 0)) IN
        Window(date_range(AddDelta(end_date, 0 - DaysPerWeek, 0), DaysPerWeek, 0))
    ELSE RaiseValueError

----------------------------------------------------------------------------
(* The weatherdata table and the aggregate queries of DatabaseManager.     *)
(* A row is a WeatherData record without its surrogate id; the table is a  *)
(* bag, so two equal observations are two rows.                            *)

Row(country, city, temperature, rain_presence, description, date) ==
    [country |-> country, city |-> city, temperature |-> temperature,
     rain_presence |-> rain_presence, weather_description |-> description,
     weather_data_date |-> date]

\* number of rows of a bag (0 for the empty table)
RowCount(tbl) == IF DOMAIN tbl = {} THEN 0 ELSE BagCardinality(tbl)

\* INSERT of one row written over the table as the invocation found it: the
\* lost update of writers that share a snapshot
InsertRow_mutant(tbl, r) == table0 (+) SetToBag({r})

\* INSERT of one row, committed
InsertRow(tbl, r) == tbl (+) SetToBag({r})

\* WHERE weather_data_date >= start_date AND weather_data_date < end_date,
\* with the comparison at the window's end inclusive
InWindow_mutant(r, w) ==
    /\ ToTicks(r.weather_data_date) >= ToTicks(w.start)
    /\ ToTicks(r.weather_data_date) <= ToTicks(w.end)

\* WHERE weather_data_date >= start_date AND weather_data_date < end_date
InWindow(r, w) ==
    /\ ToTicks(r.weather_data_date) >= ToTicks(w.start)
    /\ ToTicks(r.weather_data_date) < ToTicks(w.end)

\* the distinct rows the WHERE clause keeps
Selected(tbl, w) == {r \in DOMAIN tbl : InWindow(r, w)}

MaxOf(S) == CHOOSE x \in S : \A y \in S : y <= x
MinOf(S) == CHOOSE x \in S : \A y \in S : y >= x

NoRows == {}

\* query_stats(model, group_by_field, date_filter): one row per group.
\* stddev_temp is computed by the SQL engine and is not modelled.
query_stats(tbl, group_by_field, date_filter, n, inp) ==
    LET w == parse_date_filter(date_filter, n, inp) IN
    IF w.raised # "none"
    THEN [raised |-> w.raised, queried |-> FALSE, rows |-> NoRows]
    ELSE LET sel == Selected(tbl, w)
             keys == {r[group_by_field] : r \in sel}
             temps(k) == {r.temperature : r \in {x \in sel : x[group_by_field] = k}}
         IN [raised |-> "none", queried |-> TRUE,
             rows |-> {[key |-> k, max_temp |-> MaxOf(temps(k)), min_temp |-> MinOf(temps(k))]
                         : k \in keys}]

get_cities_stats(tbl, date_filter, n, inp) == query_stats(tbl, "city", date_filter, n, inp)

get_countries_stats(tbl, date_filter, n, inp) == query_stats(tbl, "country", date_filter, n, inp)

\* ORDER BY max(temperature) DESC for 'max', ORDER BY min(temperature) otherwise,
\* with the 'max' ordering ascending too
FirstRows_mutant(grouped, temp_extreme) ==
    {g \in grouped : \A h \in grouped : g.temp <= h.temp}

\* the grouped rows that ORDER BY may put first (ties are the engine's choice)
FirstRows(grouped, temp_extreme) ==
    IF temp_extreme = "max"
    THEN {g \in grouped : \A h \in grouped : g.temp >= h.temp}
    ELSE {g \in grouped : \A h \in grouped : g.temp <= h.temp}

\* get_temperature_extremes(model, date_filter, temp_extreme): the outcomes
\* .first() may give; first |-> {} stands for None
get_temperature_extremes(tbl, date_filter, temp_extreme, n, inp) ==
    LET w == parse_date_filter(date_filter, n, inp) IN
    IF w.raised # "none"
    THEN [raised |-> w.raised, queried |-> FALSE, first |-> NoRows]
    ELSE LET sel == Selected(tbl, w)
             temps(c) == {r.temperature : r \in {x \in sel : x.city = c}}
             grouped == {[city |-> c,
                          temp |-> IF temp_extreme = "max" THEN MaxOf(temps(c)) ELSE MinOf(temps(c))]
                            : c \in {r.city : r \in sel}}
         IN [raised |-> "none", queried |-> TRUE, first |-> FirstRows(grouped, temp_extreme)]

\* count_rain_hours(model, date_filter): SELECT count(*) ... AND rain_presence = true
count_rain_hours(tbl, date_filter, n, inp) ==
    LET w == parse_date_filter(date_filter, n, inp) IN
    IF w.raised # "none"
    THEN [raised |-> w.raised, queried |-> FALSE, count |-> 0]
    ELSE LET hit == {r \in Selected(tbl, w) : r.rain_presence}
         IN [raised |-> "none", queried |-> TRUE,
             count |-> RowCount([r \in hit |-> tbl[r]])]

----------------------------------------------------------------------------
(* The handler's constants *)

\* cities of lambda_handler, in the order of the list
CityList ==
    <<"Istanbul", "London", "Saint Petersburg", "Berlin", "Madrid", "Kyiv", "Rome",
      "Bucharest", "Paris", "Minsk", "Vienna", "Warsaw", "Hamburg", "Budapest",
      "Belgrade", "Barcelona", "Munich", "Kharkiv", "Milan">>

\* the modelled prefix of the list
Cities == {CityList[i] : i \in 1 .. NumCities}

\* temperatures the provider reports
ApiTemps == {3, 8}
\* a JSON null where a number is expected (None in Python): outside the temperatures
NoneValue == MinOf(ApiTemps) - 1
\* the 'dt' of the provider's answers (epoch position of the observation)
ApiTimestamp == ToTicks(DateTime(9, 10, 0))

\* the normalized record's fields
RecordFields ==
    {"country", "city", "temperature", "rain_presence", "weather_description",
     "weather_data_date"}

NoRecord == Row("", "", NoneValue, FALSE, "", DateTime(0, 0, 0))

\* the HTTP exchanges requests.get may have: net = "error" is a RequestException;
\* body "missing_key" lacks a key get_weather indexes, "null_temp" has main.temp null;
\* rain is the 'rain' object: absent, or its '1h' amount in tenths of a millimetre
HttpExchange(net, status, body, temp, rain) ==
    [net |-> net, status |-> status, body |-> body, temp |-> temp, rain |-> rain,
     dt |-> ApiTimestamp, country |-> "XX", description |-> "text"]

Responses ==
    {HttpExchange("ok", 200, "full", MaxOf(ApiTemps), x) : x \in {"absent", "0.3"}}
        \cup { HttpExchange("ok", 200, "missing_key", 0, "absent"),
               HttpExchange("ok", 200, "null_temp", NoneValue, "absent"),
               HttpExchange("ok", 404, "error", 0, "absent"),
               HttpExchange("error", 0, "", 0, "absent") }

NoResp == HttpExchange("none", 0, "", 0, "absent")
NoData == [kind |-> "none", record |-> NoRecord, logged |-> ""]
NoResult == [how |-> "none", statusCode |-> 0, body |-> ""]
NoAdd == [ended |-> "none", committed |-> FALSE, failed |-> "none", rolledback |-> FALSE]
NoCall == [op |-> "none"]
NoRet == [raised |-> "none"]
NoInput == [text |-> "", day |-> 0, hour |-> 0]

\* the state of the ingestion side before lambda_handler is invoked
HandlerIdle ==
    /\ hpc = "idle"
    /\ result = NoResult
    /\ queue = <<>>
    /\ task = [c \in Cities |-> "unsubmitted"]
    /\ resp = [c \in Cities |-> NoResp]
    /\ data = [c \in Cities |-> NoData]
    /\ gets = [c \in Cities |-> 0]
    /\ submits = [c \in Cities |-> 0]
    /\ addRet = [c \in Cities |-> NoAdd]
    /\ log = {}

----------------------------------------------------------------------------
(* SpecDates: parse_date_filter at every value of the clock *)

Clock ==
    {DateTime(d, h, t) : d \in 0 .. MaxDay, h \in 0 .. (HoursPerDay - 1),
                         t \in 0 .. (TicksPerHour - 1)}

\* the prompt is read only by the 'selected_hour' branch
InputsOf(f) == IF f = "selected_hour" THEN Inputs ELSE {NoInput}

InitDates ==
    /\ HandlerIdle
    /\ table = EmptyBag
    /\ table0 = EmptyBag
    /\ now \in Clock
    /\ call = NoCall
    /\ ret = NoRet

ParseDateFilter ==
    \E f \in Filters : \E inp \in InputsOf(f) :
        /\ call' = [op |-> "parse_date_filter", date_filter |-> f, input |-> inp]
        /\ ret' = parse_date_filter(f, now, inp)
        /\ UNCHANGED <<table, now>>
        /\ UNCHANGED lambdaVars

NextDates == ParseDateFilter

SpecDates == InitDates /\ [][NextDates]_vars

----------------------------------------------------------------------------
(* SpecReport: the reporting calls of main.py over a seeded table *)

ReportCities == {"London", "Berlin", "Munich"}
CountryOf(c) == IF c = "London" THEN "GB" ELSE "DE"
ReportTemps == {3, 8}

\* the clock of the reporting process: a Wednesday morning
ReportNow == DateTime(9, 10, 1)

\* observation instants around the windows of ReportNow
ReportDates ==
    { DateTime(8, HoursPerDay - 1, TicksPerHour - 1),   \* last instant of yesterday
      DateTime(9, 0, 0),                               \* first instant of today
      DateTime(9, 9, TicksPerHour - 1) }               \* within the hour 09 of today

ReportRows ==
    {Row(CountryOf(c), c, t, r, "text", d) :
        c \in ReportCities, t \in ReportTemps, r \in BOOLEAN, d \in ReportDates}

ReportInputs ==
    { [text |-> "date hour", day |-> 9, hour |-> 9],
      [text |-> "date hour", day |-> 9, hour |-> 0],
      [text |-> "garbage", day |-> 0, hour |-> 0] }

ReportFilters == NamedFilters \cup {"tomorrow"}

ReportInputsOf(f) == IF f = "selected_hour" THEN ReportInputs ELSE {NoInput}

InitReport ==
    /\ HandlerIdle
    /\ table = EmptyBag
    /\ table0 = EmptyBag
    /\ now = ReportNow
    /\ call = NoCall
    /\ ret = NoRet

\* an observation stored by an ingestion run, while no reporting process runs
SeedRow ==
    \E r \in ReportRows :
        /\ call = NoCall
        /\ RowCount(table) < MaxRows
        /\ table' = InsertRow(table, r)
        /\ UNCHANGED <<now, table0, call, ret>>
        /\ UNCHANGED lambdaVars

\* the reporting process has logged its result and exits (main.py makes one call)
ExitReport ==
    /\ call # NoCall
    /\ call' = NoCall
    /\ ret' = NoRet
    /\ UNCHANGED <<table, table0, now>>
    /\ UNCHANGED lambdaVars

\* fetch_weather_stats('countries', date_filter, ...)
GetCountriesStats ==
    \E f \in ReportFilters : \E inp \in ReportInputsOf(f) :
        /\ call = NoCall
        /\ call' = [op |-> "query_stats", field |-> "country", date_filter |-> f, input |-> inp]
        /\ ret' = get_countries_stats(table, f, now, inp)
        /\ UNCHANGED <<table, table0, now>>
        /\ UNCHANGED lambdaVars

\* fetch_weather_stats('cities', date_filter, ...)
GetCitiesStats ==
    \E f \in ReportFilters : \E inp \in ReportInputsOf(f) :
        /\ call = NoCall
        /\ call' = [op |-> "query_stats", field |-> "city", date_filter |-> f, input |-> inp]
        /\ ret' = get_cities_stats(table, f, now, inp)
        /\ UNCHANGED <<table, table0, now>>
        /\ UNCHANGED lambdaVars

\* fetch_weather_stats('extremes', date_filter, ..., temp_extreme)
GetTemperatureExtremes ==
    \E f \in ReportFilters : \E inp \in ReportInputsOf(f) : \E x \in {"max", "min"} :
        LET out == get_temperature_extremes(table, f, x, now, inp) IN
        /\ call = NoCall
        /\ call' = [op |-> "get_temperature_extremes", temp_extreme |-> x,
                    date_filter |-> f, input |-> inp]
        /\ \/ /\ out.first = {}
              /\ ret' = [raised |-> out.raised, queried |-> out.queried, none |-> TRUE,
                         city |-> "", temp |-> 0]
           \/ \E g \in out.first :
                 ret' = [raised |-> out.raised, queried |-> out.queried, none |-> FALSE,
                         city |-> g.city, temp |-> g.temp]
        /\ UNCHANGED <<table, table0, now>>
        /\ UNCHANGED lambdaVars

\* fetch_weather_stats('rain', date_filter, ...)
CountRainHours ==
    \E f \in ReportFilters : \E inp \in ReportInputsOf(f) :
        /\ call = NoCall
        /\ call' = [op |-> "count_rain_hours", date_filter |-> f, input |-> inp]
        /\ ret' = count_rain_hours(table, f, now, inp)
        /\ UNCHANGED <<table, table0, now>>
        /\ UNCHANGED lambdaVars

NextReport ==
    \/ SeedRow
    \/ GetCountriesStats
    \/ GetCitiesStats
    \/ GetTemperatureExtremes
    \/ CountRainHours
    \/ ExitReport

SpecReport == InitReport /\ [][NextReport]_vars

----------------------------------------------------------------------------
(* Spec: one invocation of lambda_handler *)

\* rain_data.get('1h', 0) of data.get('rain', {})
RainLastHour(r) == IF r.rain = "0.3" THEN 3 ELSE 0

\* get_weather with the RequestException handler missing
get_weather_mutant(city, r) ==
    IF r.net = "error" THEN
        [kind |-> "raise", record |-> NoRecord, logged |-> ""]
    ELSE IF r.status = 200 THEN
        IF r.body = "missing_key" THEN
            [kind |-> "raise", record |-> NoRecord, logged |-> ""]
        ELSE
            [kind |-> "record",
             record |-> Row(r.country, city, r.temp, RainLastHour(r) > 0, r.description,
                            FromTicks(r.dt)),
             logged |-> ""]
    ELSE
        [kind |-> "None", record |-> NoRecord, logged |-> "Error in the HTTP request"]

\* WeatherAPI.get_weather(city) on the exchange r: a record, None, or an exception
\* that is not a RequestException (KeyError on a missing key)
get_weather(city, r) ==
    IF r.net = "error" THEN
        [kind |-> "None", record |-> NoRecord,
         logged |-> "An error occurred while making the request"]
    ELSE IF r.status = 200 THEN
        IF r.body = "missing_key" THEN
            [kind |-> "raise", record |-> NoRecord, logged |-> ""]
        ELSE
            [kind |-> "record",
             record |-> Row(r.country, city, r.temp, RainLastHour(r) > 0, r.description,
                            FromTicks(r.dt)),
             logged |-> ""]
    ELSE
        [kind |-> "None", record |-> NoRecord, logged |-> "Error in the HTTP request"]

\* whether the record satisfies the WeatherData schema (temperature is a float)
SchemaValid(rec) == rec.temperature # NoneValue

\* the lines a step of c's task logs
Logged(c, msg) == IF msg = "" THEN {} ELSE {<<c, msg>>}

\* the outer handler of fetch_and_store_weather swallowing the exception silently
ProcessingError_mutant(c) == {}

\* except Exception as e: logging.error(f"Error processing {city}: {e}")
ProcessingError(c) == Logged(c, "Error processing")

\* the task after get_weather, retrying the fetch when no record came back
AfterFetch_mutant(out) ==
    IF out.kind = "record" THEN "construct" ELSE "get_weather"

\* fetch_and_store_weather after get_weather: 'if data:' and the outer handler
AfterFetch(out) ==
    IF out.kind = "record" THEN "construct" ELSE "done"

\* lambda_handler letting the exception of its setup propagate
handler_result_mutant(exception) ==
    IF exception
    THEN [how |-> "raise", statusCode |-> 0, body |-> ""]
    ELSE [how |-> "return", statusCode |-> 200, body |-> "Weather data updated successfully"]

\* what lambda_handler hands to its caller
handler_result(exception) ==
    IF exception
    THEN [how |-> "return", statusCode |-> 500, body |-> "Internal server error"]
    ELSE [how |-> "return", statusCode |-> 200, body |-> "Weather data updated successfully"]

\* a row an earlier invocation stored for the first city of the list
OldRow == Row("XX", CityList[1], MinOf(ApiTemps), FALSE, "text", DateTime(9, 9, 0))

Init ==
    /\ HandlerIdle
    /\ table \in {EmptyBag, SetToBag({OldRow})}
    /\ table0 = table
    /\ now = ReportNow
    /\ call = NoCall
    /\ ret = NoRet

Running == {c \in Cities : task[c] \notin {"unsubmitted", "queued", "done"}}
Submitted == {c \in Cities : submits[c] > 0}

\* the event arrives
Invoke ==
    /\ hpc = "idle"
    /\ hpc' = "setup"
    /\ UNCHANGED <<table, table0, result, queue, task, resp, data, gets, submits, addRet, log>>
    /\ UNCHANGED reportVars

\* DatabaseManager(database_url); db.create_tables(); WeatherAPI(api_key)
Setup ==
    /\ hpc = "setup"
    /\ \/ /\ hpc' = "submit"
          /\ UNCHANGED <<result, log>>
       \/ /\ hpc' = "returned"
          /\ log' = log \cup {<<"lambda_handler", "Lambda execution error">>}
          /\ result' = handler_result(TRUE)
    /\ UNCHANGED <<table, table0, queue, task, resp, data, gets, submits, addRet>>
    /\ UNCHANGED reportVars

\* for city in cities: executor.submit(fetch_and_store_weather, city, api, db)
Submit ==
    /\ hpc = "submit"
    /\ LET i == Cardinality(Submitted) + 1
           c == CityList[i]
       IN /\ queue' = Append(queue, c)
          /\ task' = [task EXCEPT ![c] = "queued"]
          /\ submits' = [submits EXCEPT ![c] = @ + 1]
          /\ hpc' = IF i = NumCities THEN "shutdown" ELSE "submit"
    /\ UNCHANGED <<table, table0, result, resp, data, gets, addRet, log>>
    /\ UNCHANGED reportVars

\* a free worker takes the next work item
Start ==
    /\ queue # <<>>
    /\ Cardinality(Running) < MaxWorkers
    /\ task' = [task EXCEPT ![Head(queue)] = "get_weather"]
    /\ queue' = Tail(queue)
    /\ UNCHANGED <<table, table0, hpc, result, resp, data, gets, submits, addRet, log>>
    /\ UNCHANGED reportVars

\* data = api.get_weather(city); if data: ...; except Exception
GetWeather(c) ==
    /\ task[c] = "get_weather"
    /\ \E r \in Responses :
          LET out == get_weather(c, r) IN
          /\ resp' = [resp EXCEPT ![c] = r]
          /\ data' = [data EXCEPT ![c] = out]
          /\ gets' = [gets EXCEPT ![c] = @ + 1]
          /\ log' = log \cup Logged(c, out.logged)
                        \cup (IF out.kind = "raise" THEN ProcessingError(c) ELSE {})
          /\ task' = [task EXCEPT ![c] = AfterFetch(out)]
    /\ UNCHANGED <<table, table0, hpc, result, queue, submits, addRet>>
    /\ UNCHANGED reportVars

\* weather_record = WeatherData(**data); except ValidationError.  The table model
\* may also take the record unvalidated, and the insert then meets the schema.
Construct(c) ==
    /\ task[c] = "construct"
    /\ \/ /\ task' = [task EXCEPT ![c] = "commit"]
          /\ UNCHANGED log
       \/ /\ ~SchemaValid(data[c].record)
          /\ log' = log \cup Logged(c, "Validation error")
          /\ task' = [task EXCEPT ![c] = "done"]
    /\ UNCHANGED <<table, table0, hpc, result, queue, resp, data, gets, submits, addRet>>
    /\ UNCHANGED reportVars

\* add_record: session.add(record); session.commit()
Commit(c) ==
    /\ task[c] = "commit"
    /\ \/ /\ SchemaValid(data[c].record)
          /\ table' = InsertRow(table, data[c].record)
          /\ addRet' = [addRet EXCEPT ![c].committed = TRUE]
          /\ task' = [task EXCEPT ![c] = "refresh"]
          /\ UNCHANGED log
       \/ /\ log' = log \cup Logged(c, "Database error")
          /\ addRet' = [addRet EXCEPT ![c].failed = "commit"]
          /\ task' = [task EXCEPT ![c] = "rollback"]
          /\ UNCHANGED table
    /\ UNCHANGED <<table0, hpc, result, queue, resp, data, gets, submits>>
    /\ UNCHANGED reportVars

\* add_record: session.refresh(record), inside the same try
Refresh(c) ==
    /\ task[c] = "refresh"
    /\ \/ /\ addRet' = [addRet EXCEPT ![c].ended = "returned"]
          /\ task' = [task EXCEPT ![c] = "done"]
          /\ UNCHANGED log
       \/ /\ log' = log \cup Logged(c, "Database error")
          /\ addRet' = [addRet EXCEPT ![c].failed = "refresh"]
          /\ task' = [task EXCEPT ![c] = "rollback"]
    /\ UNCHANGED <<table, table0, hpc, result, queue, resp, data, gets, submits>>
    /\ UNCHANGED reportVars

\* add_record: session.rollback() in the except block; an exception of the
\* rollback leaves add_record and is caught by fetch_and_store_weather
Rollback(c) ==
    /\ task[c] = "rollback"
    /\ \/ /\ addRet' = [addRet EXCEPT ![c].ended = "returned", ![c].rolledback = TRUE]
          /\ UNCHANGED log
       \/ /\ addRet' = [addRet EXCEPT ![c].ended = "raised"]
          /\ log' = log \cup ProcessingError(c)
    /\ task' = [task EXCEPT ![c] = "done"]
    /\ UNCHANGED <<table, table0, hpc, result, queue, resp, data, gets, submits>>
    /\ UNCHANGED reportVars

\* the handler returning as soon as the tasks are submitted, as with
\* executor.shutdown(wait=False)
Return_mutant ==
    /\ hpc = "shutdown"
    /\ hpc' = "returned"
    /\ result' = handler_result(FALSE)
    /\ UNCHANGED <<table, table0, queue, task, resp, data, gets, submits, addRet, log>>
    /\ UNCHANGED reportVars

\* the with block ends: executor.shutdown(wait=True), then return
Return ==
    /\ hpc = "shutdown"
    /\ \A c \in Cities : task[c] = "done"
    /\ hpc' = "returned"
    /\ result' = handler_result(FALSE)
    /\ UNCHANGED <<table, table0, queue, task, resp, data, gets, submits, addRet, log>>
    /\ UNCHANGED reportVars

Next ==
    \/ Invoke
    \/ Setup
    \/ Submit
    \/ Start
    \/ \E c \in Cities : GetWeather(c)
    \/ \E c \in Cities : Construct(c)
    \/ \E c \in Cities : Commit(c)
    \/ \E c \in Cities : Refresh(c)
    \/ \E c \in Cities : Rollback(c)
    \/ Return

Spec == Init /\ [][Next]_vars

\* a step of c's task (every call of the task returns or raises)
TaskStep(c) == GetWeather(c) \/ Construct(c) \/ Commit(c) \/ Refresh(c) \/ Rollback(c)

\* a step of the invoked handler's process: of its main thread or of a worker
Progress == Setup \/ Submit \/ Start \/ (\E c \in Cities : TaskStep(c)) \/ Return

\* Spec with the scheduling of the process: while some thread of the invoked
\* handler can take a step (every call a task makes returns or raises), one does
Fairness == WF_vars(Progress)

\* a scheduled invocation that finds the table of the runs before it
InitFair == Init /\ table = SetToBag({OldRow})

SpecFair == InitFair /\ [][Next]_vars /\ Fairness


----------------------------------------------------------------------------
(* Properties of the ingestion handler *)

\* rows of city c in a table
CityRows(tbl, c) == RowCount([r \in {x \in DOMAIN tbl : x.city = c} |-> tbl[r]])

\* rows this invocation has added for city c
Gained(c) == CityRows(table, c) - CityRows(table0, c)

LoggedFor(c) == \E e \in log : e[1] = c

\* c's task ended without storing a record
TaskFailed(c) ==
    /\ task[c] = "done"
    /\ \/ data[c].kind # "record"
       \/ ~addRet[c].committed
       \/ addRet[c].failed # "none"

\* C1: a failure of one city's task (non-200, network error, malformed response,
\* validation failure, database failure) is logged and never aborts the batch:
\* every task can always take its next step whatever happened to the others, all
\* tasks have run to completion when the handler returns, and a city whose fetch
\* gave a record and whose insert committed has its row in the table.
C1_ErrorIsolation ==
    /\ \A c \in Cities : TaskFailed(c) => LoggedFor(c)
    /\ \A c \in Running : ENABLED TaskStep(c)
    /\ (queue # <<>> /\ Cardinality(Running) < MaxWorkers) => ENABLED Start
    /\ \A c \in Cities :
          (data[c].kind = "record" /\ addRet[c].committed) =>
              /\ Gained(c) = 1
              /\ CopiesIn(data[c].record, table) > CopiesIn(data[c].record, table0)
    /\ (hpc = "returned" /\ result.statusCode = 200) =>
          \A c \in Cities : task[c] = "done"

\* C1 witness: the handler returned 200 after one city's response lacked a key,
\* another city's rollback raised, and a third city's record was stored
C1_Witness ==
    /\ hpc = "returned" /\ result.statusCode = 200
    /\ \E c1, c2, c3 \in Cities :
          /\ data[c1].kind = "raise"
          /\ addRet[c2].ended = "raised"
          /\ addRet[c3].committed /\ addRet[c3].ended = "returned" /\ Gained(c3) = 1
          /\ submits[c1] = 1 /\ gets[c2] = 1

\* C2: get_weather returns None, without raising, whenever the status is not 200 or
\* the request fails with a network error, and returns a normalized record of the
\* six fields only when the status is 200.
C2_GetWeather ==
    \A c \in Cities :
        resp[c] # NoResp =>
            LET r == resp[c]
                d == data[c]
            IN  /\ (r.net = "error" \/ r.status # 200) => d.kind = "None"
                /\ d.kind = "record" =>
                      /\ r.net = "ok" /\ r.status = 200
                      /\ DOMAIN d.record = RecordFields
                      /\ d.record.city = c
                      /\ d.record.country = r.country
                      /\ d.record.temperature = r.temp
                      /\ d.record.rain_presence = (r.rain = "0.3")
                      /\ ToTicks(d.record.weather_data_date) = r.dt

\* C2 witness: one city met a network error, one a 404, one got its record
C2_Witness ==
    \E c1, c2, c3 \in Cities :
        /\ resp[c1].net = "error" /\ data[c1].kind = "None"
        /\ resp[c2].net = "ok" /\ resp[c2].status = 404 /\ data[c2].kind = "None"
        /\ resp[c3].status = 200 /\ data[c3].kind = "record" /\ data[c3].record.rain_presence

\* C3: add_record either commits the record (the table gains exactly that row) or,
\* on any database failure, logs an error, rolls back and leaves the table
\* unchanged; in both cases it returns normally.
C3_AddRecord ==
    \A c \in Cities :
        addRet[c].ended # "none" =>
            /\ addRet[c].ended = "returned"
            /\ addRet[c].failed = "none" =>
                  /\ addRet[c].committed /\ Gained(c) = 1
                  /\ <<c, "Database error">> \notin log
            /\ addRet[c].failed # "none" =>
                  /\ <<c, "Database error">> \in log
                  /\ addRet[c].rolledback
                  /\ Gained(c) = 0

\* C4: when the setup succeeds exactly one task is submitted per city and nothing
\* is retried: at most one GET and at most one inserted row per city, so the table
\* grows by at most the number of cities.
C4_OneTaskPerCity ==
    /\ \A c \in Cities :
          /\ submits[c] <= 1
          /\ gets[c] <= 1
          /\ gets[c] <= submits[c]
          /\ Gained(c) \in {0, 1}
          /\ Cardinality({i \in 1 .. Len(queue) : queue[i] = c}) <= 1
    /\ RowCount(table) - RowCount(table0) \in 0 .. Cardinality(Cities)
    /\ (hpc = "shutdown" \/ (hpc = "returned" /\ result.statusCode = 200)) =>
          \A c \in Cities : submits[c] = 1

\* C4 witness: the handler returned 200 and every city's row was stored, on top of
\* a table that already held a row
C4_Witness ==
    /\ hpc = "returned" /\ result.statusCode = 200
    /\ table0 # EmptyBag
    /\ \A c \in Cities : gets[c] = 1 /\ Gained(c) = 1
    /\ RowCount(table) - RowCount(table0) = Cardinality(Cities)

\* C5: lambda_handler never raises and ends with a result: 200 and 'Weather data
\* updated successfully' when its body ran through, 500 and an error body when an
\* exception occurred in it; until it has returned it can always go on.
C5_HandlerResult ==
    /\ hpc # "returned" => (result = NoResult /\ ENABLED Next)
    /\ hpc = "returned" =>
          /\ result.how = "return"
          /\ \/ /\ result.statusCode = 200
                /\ result.body = "Weather data updated successfully"
                /\ <<"lambda_handler", "Lambda execution error">> \notin log
                /\ \A c \in Cities : task[c] = "done"
             \/ /\ result.statusCode = 500
                /\ result.body = "Internal server error"
                /\ <<"lambda_handler", "Lambda execution error">> \in log

\* C5 witness: the setup raised and the handler returned 500
C5_Witness ==
    /\ hpc = "returned"
    /\ result.statusCode = 500
    /\ <<"lambda_handler", "Lambda execution error">> \in log

\* the cities whose fetch returned a record and whose insert was committed
StoredCities == {c \in Cities : data[c].kind = "record" /\ addRet[c].committed}

\* C11: the tasks share no mutable state, so whatever the interleaving and the
\* completion order of the pool, the rows added to the table are exactly one row
\* for each city whose fetch returned a record and whose insert succeeded, and
\* nothing else.
C11_InterleavingIndependent ==
    /\ table = table0 (+) SetToBag({data[c].record : c \in StoredCities})
    /\ \A c \in Cities : Gained(c) = (IF c \in StoredCities THEN 1 ELSE 0)
    /\ \A c, d \in StoredCities : data[c].record = data[d].record => c = d

\* C11 witness: two tasks run at once and the city submitted later has committed
\* its row while the city submitted before it is still about to commit, on top of
\* a table that already held a row
C11_Witness ==
    /\ task[CityList[1]] = "commit"
    /\ task[CityList[2]] = "refresh"
    /\ CityList[2] \in StoredCities
    /\ CopiesIn(data[CityList[2]].record, table) = 1
    /\ table0 # EmptyBag

\* C12: lambda_handler returns its 200 result only after every submitted task
\* has ended (the pool is shut down with wait before the return): when it has
\* returned every task is done, no GET and no insert happens afterwards, and,
\* every task ending, the invoked handler eventually returns.
C12_ReturnAfterTasks ==
    /\ []((hpc = "returned" /\ result.statusCode = 200) =>
            \A c \in Cities : submits[c] = 1 /\ task[c] = "done")
    /\ [][hpc = "returned" =>
            (gets' = gets /\ table' = table /\ task' = task /\ queue' = queue)]_vars
    /\ (hpc = "setup") ~> (hpc = "returned")

\* C12 witness: the handler has returned 200 after every city's GET was made and
\* rows were committed, one task having ended with a logged database error
C12_Witness ==
    /\ hpc = "returned" /\ result.statusCode = 200
    /\ \A c \in Cities : gets[c] = 1 /\ task[c] = "done"
    /\ StoredCities # {}
    /\ \E c \in Cities : addRet[c].failed = "commit" /\ addRet[c].rolledback


----------------------------------------------------------------------------
(* Properties of the reporting layer *)

\* 00:00 of day d on the time line
Midnight(d) == d * TicksPerDay

\* the Monday of the week of day d
MondayOf(d) == CHOOSE m \in (d - (DaysPerWeek - 1)) .. d : m % DaysPerWeek = 0

\* the hour an instant lies in
HourOf(dt) == ToTicks(dt) \div TicksPerHour

WellFormed(dt) ==
    /\ dt.hour \in 0 .. (HoursPerDay - 1)
    /\ dt.tick \in 0 .. (TicksPerHour - 1)

ParsedOk == call.op = "parse_date_filter" /\ ret.raised = "none"

\* C6: for every value of the clock each named filter gives the expected half-open
\* window with start < end: today = [00:00 of now's day, +1 day), yesterday =
\* [00:00 of the day before, 00:00 of now's day), current_week = [00:00 of the Monday
\* of now's week, +7 days), last_seven_days = [00:00 six days before now's day,
\* 00:00 of the day after now's day), selected_hour = [the entered hour, +1 hour);
\* today, current_week and last_seven_days contain now, and yesterday ends where
\* today starts.
C6_NamedWindows ==
    ParsedOk =>
        LET s == ToTicks(ret.start)
            e == ToTicks(ret.end)
            n == ToTicks(now)
            f == call.date_filter
        IN  /\ f \in NamedFilters
            /\ s < e
            /\ WellFormed(ret.start) /\ WellFormed(ret.end)
            /\ f = "today" =>
                  /\ s = Midnight(now.day) /\ e = Midnight(now.day + 1)
                  /\ s <= n /\ n < e
            /\ f = "yesterday" =>
                  /\ s = Midnight(now.day - 1) /\ e = Midnight(now.day)
                  /\ e = ToTicks(parse_date_filter("today", now, NoInput).start)
            /\ f = "current_week" =>
                  /\ s = Midnight(MondayOf(now.day))
                  /\ e = s + DaysPerWeek * TicksPerDay
                  /\ s <= n /\ n < e
            /\ f = "last_seven_days" =>
                  /\ s = Midnight(now.day - 6) /\ e = Midnight(now.day + 1)
                  /\ s <= n /\ n < e
            /\ f = "selected_hour" =>
                  /\ s = (call.input.day * HoursPerDay + call.input.hour) * TicksPerHour
                  /\ e = s + TicksPerHour

\* C6 witness: late on a Sunday, current_week starts six days earlier
C6_Witness ==
    /\ ParsedOk
    /\ call.date_filter = "current_week"
    /\ Weekday(now) = DaysPerWeek - 1
    /\ now.hour = HoursPerDay - 1
    /\ ret.start = DateTime(now.day - 6, 0, 0)
    /\ now.day > DaysPerWeek

ReportOps == {"query_stats", "get_temperature_extremes", "count_rain_hours"}

\* C7: parse_date_filter raises ValueError for every filter that is not one of the
\* five names, so query_stats, get_temperature_extremes and count_rain_hours with
\* such a filter fail before any query is issued and return no result.
C7_UnknownFilterRaises ==
    /\ \A f \in Filters \ NamedFilters :
          parse_date_filter(f, now, NoInput).raised = "ValueError"
    /\ (call.op \in ReportOps /\ call.date_filter \notin NamedFilters) =>
          /\ ret.raised = "ValueError"
          /\ ~ret.queried
          /\ call.op = "query_stats" => ret.rows = {}
          /\ call.op = "get_temperature_extremes" => ret.none
          /\ call.op = "count_rain_hours" => ret.count = 0

\* C7 witness: a statistics call with an unknown filter on a table that has rows
\* inside today's window
C7_Witness ==
    /\ call.op = "query_stats"
    /\ call.date_filter = "tomorrow"
    /\ ret.raised = "ValueError"
    /\ \E r \in DOMAIN table : r.weather_data_date.day = now.day

\* the window of the call made last
CallWindow == parse_date_filter(call.date_filter, now, call.input)

\* the observations with start <= weather_data_date < end
InRange(w) ==
    {r \in DOMAIN table :
        /\ ToTicks(w.start) <= ToTicks(r.weather_data_date)
        /\ ToTicks(r.weather_data_date) < ToTicks(w.end)}

\* C8: query_stats returns exactly one row per value of the grouping field that has
\* an observation with start <= weather_data_date < end and none for other values;
\* max_temp and min_temp are the maximum and minimum over exactly those
\* observations of the group, so max_temp >= min_temp.
C8_GroupedStats ==
    (call.op = "query_stats" /\ ret.raised = "none") =>
        LET in == InRange(CallWindow)
            grp(k) == {r \in in : r[call.field] = k}
        IN  /\ ret.queried
            /\ {g.key : g \in ret.rows} = {r[call.field] : r \in in}
            /\ \A g \in ret.rows :
                  /\ Cardinality({h \in ret.rows : h.key = g.key}) = 1
                  /\ \A r \in grp(g.key) :
                        g.min_temp <= r.temperature /\ r.temperature <= g.max_temp
                  /\ \E r \in grp(g.key) : r.temperature = g.max_temp
                  /\ \E r \in grp(g.key) : r.temperature = g.min_temp
                  /\ g.max_temp >= g.min_temp

\* C8 witness: yesterday's statistics by country, with a group whose extremes
\* differ and an observation dated exactly at the window's end left out
C8_Witness ==
    /\ call.op = "query_stats" /\ ret.raised = "none"
    /\ call.field = "country"
    /\ call.date_filter = "yesterday"
    /\ \E g \in ret.rows : g.max_temp > g.min_temp
    /\ \E r \in DOMAIN table : r.weather_data_date = CallWindow.end

\* C9: get_temperature_extremes returns (city, t) with t the highest ('max') or
\* lowest ('min') temperature of the observations with start <= date < end and
\* the city having such an observation with that temperature, and None when no
\* observation lies in the window.
C9_Extremes ==
    (call.op = "get_temperature_extremes" /\ ret.raised = "none") =>
        LET in == InRange(CallWindow) IN
        /\ ret.queried
        /\ ret.none <=> in = {}
        /\ ~ret.none =>
              /\ \E r \in in : r.city = ret.city /\ r.temperature = ret.temp
              /\ call.temp_extreme = "max" => \A r \in in : r.temperature <= ret.temp
              /\ call.temp_extreme = "min" => \A r \in in : r.temperature >= ret.temp

\* C9 witness: the maximum is asked for, two cities have observations in the
\* window with different temperatures, and the warmer one is returned
C9_Witness ==
    /\ call.op = "get_temperature_extremes" /\ ret.raised = "none"
    /\ call.temp_extreme = "max"
    /\ ~ret.none
    /\ \E r \in InRange(CallWindow) : r.city # ret.city /\ r.temperature < ret.temp
    /\ \E r \in DOMAIN table : r \notin InRange(CallWindow)

\* C10: count_rain_hours returns the number of hours of [start, end) in which a
\* stored observation has rain_presence true, each such hour counted once.
C10_RainHours ==
    (call.op = "count_rain_hours" /\ ret.raised = "none") =>
        ret.count = Cardinality({HourOf(r.weather_data_date) :
                                    r \in {x \in InRange(CallWindow) : x.rain_presence}})

====
